---- MODULE Spec2Model ----
(***************************************************************************)
(* SplunkNotableParser (clx/parsers/splunk_notable_parser.py).             *)
(*                                                                         *)
(* parse(dataframe, raw_column) cleans the text column, extracts the named *)
(* groups, fills nulls with "" and runs _process_ip_fields, which for      *)
(* src_ip and then dest_ip splits the rows on a zero-length primary field, *)
(* copies the alternate field into the zero-length group, concatenates the *)
(* two groups and drops the alternate and length columns.                  *)
(*                                                                         *)
(* A string is a sequence of one-character strings.  A dataframe is a      *)
(* record [columns, rows]; a row is [index, cells] where index is the      *)
(* row's label in the dataframe index and cells maps each column name to   *)
(* the row's value.                                                        *)
(***************************************************************************)
EXTENDS Integers, Sequences, FiniteSets, TLC

VARIABLES
    dataframe,          \* the caller's dataset (parse assigns into it, line 25)
    raw_column,         \* the column name the caller passes to parse
    parsed_dataframe,   \* local of parse / _process_ip_fields
    tmp_dataframe,      \* local of _process_ip_fields (line 44)
    ip,                 \* loop variable of line 37
    pc,                 \* position in the code
    call,               \* "parse": inside parse; "merge": a direct second call
                        \* of _process_ip_fields on the dataset parse returned
    error,              \* the exception that propagated, or "none"
    returned,           \* what parse returned (NoFrame before it returns)
    merged,             \* what the direct call of _process_ip_fields returned
    input0,             \* history: the caller's dataset as it was passed
    extracted,          \* history: the dataset after line 28, before the merge
    passIn              \* history: the dataset at the start of the current pass

vars == <<dataframe, raw_column, parsed_dataframe, tmp_dataframe, ip, pc, call,
          error, returned, merged, input0, extracted, passIn>>

----------------------------------------------------------------------------
(* Bounds and the input alphabet *)

MaxRows == 3

BS == "\\"

\* The null / missing marker of the dataframe library (never a string: its
\* only element is no character).
Null == <<"<NA>">>

\* "no dataframe": the value of a local or a result that is not set (every
\* dataframe of the program has at least one column).
NoFrame == [columns |-> {}, rows |-> <<>>]

----------------------------------------------------------------------------
(* Dataframe primitives used by the source *)

Frame(cols, rows) == [columns |-> cols, rows |-> rows]

\* DataFrame.empty
Empty(df) == Len(df.rows) = 0

\* df[c] : the column as a sequence of values
GetItem(df, c) == [i \in 1..Len(df.rows) |-> df.rows[i].cells[c]]

\* df[c] = series : adds or replaces column c, every other column kept
SetItem(df, c, series) ==
    Frame(df.columns \cup {c},
          [i \in 1..Len(df.rows) |->
              [index |-> df.rows[i].index,
               cells |-> [k \in df.columns \cup {c} |->
                             IF k = c THEN series[i] ELSE df.rows[i].cells[k]]]])

\* Series.str.len(): the length of each string, null for a null
StrLen(s) == IF s = Null THEN -1 ELSE Len(s)

\* series == 0 and series != 0 as boolean masks; a null compares as null,
\* which a boolean mask treats as False
EqZero(n) == n = 0
NeZero(n) == n > 0

\* df[df[c] == 0] and df[df[c] != 0]: the selected rows in their order,
\* index labels kept
SelectZero(df, c) ==
    Frame(df.columns, SelectSeq(df.rows, LAMBDA r : EqZero(r.cells[c])))
SelectNonZero(df, c) ==
    Frame(df.columns, SelectSeq(df.rows, LAMBDA r : NeZero(r.cells[c])))

\* Variants of concat: the groups in the other order; the first group lost.
ConcatSwapped(a, b) == Frame(a.columns \cup b.columns, b.rows \o a.rows)
ConcatFirstOnly(a, b) == Frame(a.columns \cup b.columns, b.rows)

\* cudf.concat([a, b]): the rows of a followed by the rows of b
Concat(a, b) == Frame(a.columns \cup b.columns, a.rows \o b.rows)

\* Variant of drop that leaves the alternate fields in place.
DropLenOnly(df, labels) ==
    LET keep == df.columns \ {c \in labels : c \notin {"src_ip2", "dest_ip2"}}
    IN  Frame(keep,
              [i \in 1..Len(df.rows) |->
                  [index |-> df.rows[i].index,
                   cells |-> [k \in keep |-> df.rows[i].cells[k]]]])

\* DataFrame.drop(labels): a dataframe without these columns
Drop(df, labels) ==
    LET keep == df.columns \ labels
    IN  Frame(keep,
              [i \in 1..Len(df.rows) |->
                  [index |-> df.rows[i].index,
                   cells |-> [k \in keep |-> df.rows[i].cells[k]]]])

\* Variant of fillna that fills nothing.
FillnaNone(df, v) == df

\* DataFrame.fillna(v): every null cell replaced by v
Fillna(df, v) ==
    Frame(df.columns,
          [i \in 1..Len(df.rows) |->
              [index |-> df.rows[i].index,
               cells |-> [k \in df.columns |->
                             IF df.rows[i].cells[k] = Null THEN v
                             ELSE df.rows[i].cells[k]]]])

----------------------------------------------------------------------------
(* Line 25: dataframe[raw_column].str.replace("\\\\", "")                  *)
(* The Python literal "\\\\" is the two characters \\ .  Series.str.replace *)
(* takes its pattern as a regular expression (regex=True is the default of *)
(* the library the module imports), and the regular expression \\ matches  *)
(* one literal backslash.  Every match is replaced by repl, left to right. *)

\* the same call with the pattern taken literally (two adjacent backslashes)
RECURSIVE StrReplaceLiteral(_, _)
StrReplaceLiteral(s, repl) ==
    IF Len(s) = 0 THEN <<>>
    ELSE IF Len(s) >= 2 /\ s[1] = BS /\ s[2] = BS
         THEN repl \o StrReplaceLiteral(SubSeq(s, 3, Len(s)), repl)
         ELSE <<Head(s)>> \o StrReplaceLiteral(Tail(s), repl)

RECURSIVE StrReplace(_, _)
StrReplace(s, repl) ==
    IF Len(s) = 0 THEN <<>>
    ELSE IF Head(s) = BS
         THEN repl \o StrReplace(Tail(s), repl)
         ELSE <<Head(s)>> \o StrReplace(Tail(s), repl)

----------------------------------------------------------------------------
(* Line 26: EventParser.parse_raw_event, which is not part of the source   *)
(* file; modelled from the specification: one named pattern, one output    *)
(* column per named group, a row that does not match yields no capture.    *)
(* The pattern modelled is                                                 *)
(*   ^(src_ip),(src_ip2),(dest_ip),(dest_ip2)(?:,(user))?$                 *)
(* where every group is [^,\\]* .                                          *)

GroupNames == <<"src_ip", "src_ip2", "dest_ip", "dest_ip2", "user">>

Groups == {GroupNames[i] : i \in 1..Len(GroupNames)}

\* the comma-separated fields of a line
RECURSIVE Fields(_)
Fields(s) ==
    IF Len(s) = 0 THEN << <<>> >>
    ELSE LET rest == Fields(Tail(s))
         IN  IF Head(s) = "," THEN << <<>> >> \o rest
             ELSE << <<Head(s)>> \o Head(rest) >> \o Tail(rest)

Matches(s) ==
    /\ \A i \in 1..Len(s) : s[i] # BS
    /\ Len(Fields(s)) \in {Len(GroupNames) - 1, Len(GroupNames)}

\* the captures of one line: the matched substring of each group, null for a
\* group that did not take part in the match or when the line does not match
Extract(s) ==
    [g \in Groups |->
        IF ~Matches(s) THEN Null
        ELSE LET k == CHOOSE i \in 1..Len(GroupNames) : GroupNames[i] = g
             IN  IF k <= Len(Fields(s)) THEN Fields(s)[k] ELSE Null]

parse_raw_event(df, col) ==
    Frame(Groups,
          [i \in 1..Len(df.rows) |->
              [index |-> df.rows[i].index,
               cells |-> Extract(df.rows[i].cells[col])]])

----------------------------------------------------------------------------
(* Inputs *)

\* Raw log lines: matching lines with every combination the merge
\* distinguishes, lines with doubled, single and tripled backslashes, a line
\* without the optional last group, and a line that does not match.
Lines ==
    { <<"1", ",", "2", ",", "3", ",", "4", ",", "u">>,
      <<",", "2", ",", "3", ",", ",", "u">>,
      <<"1", ",", ",", ",", "4", ",", "u">>,
      <<",", ",", ",", ",">>,
      <<",", "2", ",", ",", "4", ",", "u">>,
      <<"x", ",", "1">>,
      <<BS, BS, "1", ",", "2", ",", "3", ",", "4", ",", "u">>,
      <<",", BS, "2", ",", BS, BS, BS, ",", "4", ",", "u">>,
      <<"1", ",", "2", ",", "3", ",", "4">> }

\* The value of the caller's other column; the cleaning must leave its
\* backslashes alone.
HostValue == <<BS, BS, "h", BS>>

InputColumns == {"raw", "host"}

\* A caller's dataset of n rows with the default index 0..n-1.
InputFrames ==
    UNION { { Frame(InputColumns,
                    [i \in 1..n |->
                        [index |-> i - 1,
                         cells |-> [k \in InputColumns |->
                                       IF k = "raw" THEN t[i] ELSE HostValue]]])
              : t \in [1..n -> Lines] }
            : n \in 0..MaxRows }

\* The column names a caller may pass: one present, one absent.
ColumnArgs == {"raw", "text"}

----------------------------------------------------------------------------
(* Initial state: parse has just been called *)

Init ==
    /\ dataframe \in InputFrames
    /\ raw_column \in ColumnArgs
    /\ input0 = dataframe
    /\ parsed_dataframe = NoFrame
    /\ tmp_dataframe = NoFrame
    /\ ip = "none"
    /\ pc = "line25"
    /\ call = "parse"
    /\ error = "none"
    /\ returned = NoFrame
    /\ merged = NoFrame
    /\ extracted = NoFrame
    /\ passIn = NoFrame

\* an exception leaves the call: nothing is returned, the locals are gone
Raise(e) ==
    /\ pc' = "raised"
    /\ error' = e

----------------------------------------------------------------------------
(* parse, lines 22-31 *)

\* Line 25 with the assignment made before the column is looked up.
CleanAddsColumn ==
    /\ pc = "line25"
    /\ IF raw_column \notin dataframe.columns
       THEN /\ Raise("KeyError")
            /\ dataframe' = SetItem(dataframe, raw_column,
                                    [i \in 1..Len(dataframe.rows) |-> <<>>])
       ELSE /\ dataframe' = SetItem(dataframe, raw_column,
                   [i \in 1..Len(dataframe.rows) |->
                       StrReplace(GetItem(dataframe, raw_column)[i], <<>>)])
            /\ pc' = "line26"
            /\ error' = error
    /\ UNCHANGED <<raw_column, parsed_dataframe, tmp_dataframe, ip, call,
                   returned, merged, input0, extracted, passIn>>

\* Line 25: dataframe[raw_column] = dataframe[raw_column].str.replace(..).
\* The right-hand side is evaluated first; an absent column raises KeyError
\* there and nothing is assigned.  Otherwise the caller's dataset gets the
\* cleaned column.
Clean ==
    /\ pc = "line25"
    /\ IF raw_column \notin dataframe.columns
       THEN /\ Raise("KeyError")
            /\ dataframe' = dataframe
       ELSE /\ dataframe' = SetItem(dataframe, raw_column,
                   [i \in 1..Len(dataframe.rows) |->
                       StrReplace(GetItem(dataframe, raw_column)[i], <<>>)])
            /\ pc' = "line26"
            /\ error' = error
    /\ UNCHANGED <<raw_column, parsed_dataframe, tmp_dataframe, ip, call,
                   returned, merged, input0, extracted, passIn>>

\* Line 26
ParseRawEvent ==
    /\ pc = "line26"
    /\ parsed_dataframe' = parse_raw_event(dataframe, raw_column)
    /\ pc' = "line28"
    /\ UNCHANGED <<dataframe, raw_column, tmp_dataframe, ip, call, error,
                   returned, merged, input0, extracted, passIn>>

\* Line 28, then the call of line 30 (entry of the loop of line 37)
FillNulls ==
    /\ pc = "line28"
    /\ parsed_dataframe' = Fillna(parsed_dataframe, <<>>)
    /\ extracted' = parsed_dataframe'
    /\ passIn' = parsed_dataframe'
    /\ ip' = "src_ip"
    /\ pc' = "line42"
    /\ UNCHANGED <<dataframe, raw_column, tmp_dataframe, call, error,
                   returned, merged, input0>>

----------------------------------------------------------------------------
(* _process_ip_fields, lines 33-64 *)

\* Lines 39-40
Ip2(i) == IF i = "src_ip" THEN "src_ip2" ELSE "dest_ip2"
IpLen(i) == IF i = "src_ip" THEN "src_ip_len" ELSE "dest_ip_len"

\* Line 42.  In the first iteration parsed_dataframe still is the object the
\* caller passed, so the new column is added to the caller's dataset too.
ComputeLen ==
    /\ pc = "line42"
    /\ parsed_dataframe' = SetItem(parsed_dataframe, IpLen(ip),
           [i \in 1..Len(parsed_dataframe.rows) |->
               StrLen(GetItem(parsed_dataframe, ip)[i])])
    /\ returned' = IF call = "merge" /\ ip = "src_ip"
                   THEN parsed_dataframe' ELSE returned
    /\ pc' = "line44"
    /\ UNCHANGED <<dataframe, raw_column, tmp_dataframe, ip, call, error,
                   merged, input0, extracted, passIn>>

\* Lines 44-46: the rows with a zero length, and the rows with another one
Split ==
    /\ pc = "line44"
    /\ tmp_dataframe' = SelectZero(parsed_dataframe, IpLen(ip))
    /\ parsed_dataframe' = SelectNonZero(parsed_dataframe, IpLen(ip))
    /\ pc' = "line48"
    /\ UNCHANGED <<dataframe, raw_column, ip, call, error, returned, merged,
                   input0, extracted, passIn>>

\* Line 48 false: nothing to overwrite
SkipOverwrite ==
    /\ pc = "line48"
    /\ Empty(tmp_dataframe)
    /\ pc' = "line63"
    /\ UNCHANGED <<dataframe, raw_column, parsed_dataframe, tmp_dataframe, ip,
                   call, error, returned, merged, input0, extracted, passIn>>

\* Variant of line 51 that assigns the primary field to itself.
OverwriteNothing(df, i) == GetItem(df, i)

\* the value line 51 assigns
OverwriteValue(df, i) == GetItem(df, Ip2(i))

\* Line 48 true, line 51: tmp_dataframe[ip] = tmp_dataframe[ip2]
Overwrite ==
    /\ pc = "line48"
    /\ ~Empty(tmp_dataframe)
    /\ IF Ip2(ip) \notin tmp_dataframe.columns
       THEN /\ Raise("KeyError")
            /\ tmp_dataframe' = tmp_dataframe
       ELSE /\ tmp_dataframe' = SetItem(tmp_dataframe, ip,
                                        OverwriteValue(tmp_dataframe, ip))
            /\ pc' = "line52"
            /\ error' = error
    /\ UNCHANGED <<dataframe, raw_column, parsed_dataframe, ip, call,
                   returned, merged, input0, extracted, passIn>>

\* Line 52 true, line 58
ConcatGroups ==
    /\ pc = "line52"
    /\ ~Empty(parsed_dataframe)
    /\ parsed_dataframe' = Concat(parsed_dataframe, tmp_dataframe)
    /\ pc' = "line63"
    /\ UNCHANGED <<dataframe, raw_column, tmp_dataframe, ip, call, error,
                   returned, merged, input0, extracted, passIn>>

\* Variant of line 61 that keeps the (empty) non-zero-length group.
KeepParsed(parsed, tmp) == parsed

\* the dataset line 61 keeps
KeepTmp(parsed, tmp) == tmp

\* Line 52 false, line 61
TakeTmp ==
    /\ pc = "line52"
    /\ Empty(parsed_dataframe)
    /\ parsed_dataframe' = KeepTmp(parsed_dataframe, tmp_dataframe)
    /\ pc' = "line63"
    /\ UNCHANGED <<dataframe, raw_column, tmp_dataframe, ip, call, error,
                   returned, merged, input0, extracted, passIn>>

\* Variant of drop that ignores absent labels.
DropIgnoresMissing(df, labels) == FALSE

\* drop raises for a label that is no column of the dataframe
DropRaises(df, labels) == ~(labels \subseteq df.columns)

\* Line 63
DropHelpers ==
    /\ pc = "line63"
    /\ IF DropRaises(parsed_dataframe, {IpLen(ip), Ip2(ip)})
       THEN /\ Raise("KeyError")
            /\ parsed_dataframe' = parsed_dataframe
       ELSE /\ parsed_dataframe' = Drop(parsed_dataframe, {IpLen(ip), Ip2(ip)})
            /\ pc' = "line37"
            /\ error' = error
    /\ UNCHANGED <<dataframe, raw_column, tmp_dataframe, ip, call,
                   returned, merged, input0, extracted, passIn>>

\* Line 37: the next field, or the end of the loop
NextField ==
    /\ pc = "line37"
    /\ IF ip = "src_ip"
       THEN /\ ip' = "dest_ip"
            /\ passIn' = parsed_dataframe
            /\ pc' = "line42"
       ELSE /\ pc' = "line64"
            /\ UNCHANGED <<ip, passIn>>
    /\ UNCHANGED <<dataframe, raw_column, parsed_dataframe, tmp_dataframe,
                   call, error, returned, merged, input0, extracted>>

\* Line 64, and for the call from parse lines 30-31
Return ==
    /\ pc = "line64"
    /\ IF call = "parse"
       THEN /\ returned' = parsed_dataframe
            /\ merged' = merged
       ELSE /\ merged' = parsed_dataframe
            /\ returned' = returned
    /\ pc' = "done"
    /\ UNCHANGED <<dataframe, raw_column, parsed_dataframe, tmp_dataframe, ip,
                   call, error, input0, extracted, passIn>>

\* A caller runs _process_ip_fields again on the dataset parse returned, in
\* which the alternate fields are absent.
MergeAgain ==
    /\ pc = "done"
    /\ call = "parse"
    /\ call' = "merge"
    /\ parsed_dataframe' = returned
    /\ tmp_dataframe' = NoFrame
    /\ passIn' = returned
    /\ ip' = "src_ip"
    /\ pc' = "line42"
    /\ UNCHANGED <<dataframe, raw_column, error, returned, merged, input0,
                   extracted>>

Next ==
    \/ Clean
    \/ ParseRawEvent
    \/ FillNulls
    \/ ComputeLen
    \/ Split
    \/ SkipOverwrite
    \/ Overwrite
    \/ ConcatGroups
    \/ TakeTmp
    \/ DropHelpers
    \/ NextField
    \/ Return
    \/ MergeAgain

Spec == Init /\ [][Next]_vars

----------------------------------------------------------------------------
(* Vocabulary of the properties *)

NumRows(df) == Len(df.rows)

\* the index labels of a dataframe, in row order
IndexOf(df) == [i \in 1..Len(df.rows) |-> df.rows[i].index]

\* the positions of the rows labelled x
RowsAt(df, x) == {i \in 1..Len(df.rows) : df.rows[i].index = x}

\* the value of column c in the (one) row labelled x
Cell(df, x, c) == df.rows[CHOOSE i \in RowsAt(df, x) : TRUE].cells[c]

\* df holds every index label of ref exactly once and no other
SameRowsAs(df, ref) ==
    /\ NumRows(df) = NumRows(ref)
    /\ \A i \in 1..NumRows(ref) :
           Cardinality(RowsAt(df, ref.rows[i].index)) = 1

Chars == {"1", "2", "3", "4", "u", "x", "h", ",", BS}

IsString(v) == v # Null /\ \A i \in 1..Len(v) : v[i] \in Chars

IsEmptyStr(v) == v = <<>>

NotBackslash(c) == c # BS

InMerge == pc \in {"line42", "line44", "line48", "line52", "line63",
                    "line37", "line64"}

ParseDone == pc = "done" /\ call = "parse"

HelperColumns == {"src_ip2", "dest_ip2", "src_ip_len", "dest_ip_len"}

\* in df, no row with an empty field p comes before a row with a non-empty one
NoInversion(df, p) ==
    \A i, j \in 1..NumRows(df) :
        (i < j /\ IsEmptyStr(df.rows[i].cells[p]))
            => IsEmptyStr(df.rows[j].cells[p])

----------------------------------------------------------------------------
\* C1: the dataset after the split of lines 44-46 is partitioned without
\* loss (the two groups together have the rows of the pass's input), the
\* dataset after the recombination and after each pass has exactly the rows
\* of the pass's input, each once, every pass of parse starts with as many
\* rows as the caller's dataset, and the dataset parse returns has exactly
\* the rows of the caller's dataset, each once.
C1_RowCountPreserved ==
    /\ pc \in {"line48", "line52"} =>
          /\ NumRows(parsed_dataframe) + NumRows(tmp_dataframe) = NumRows(passIn)
          /\ \A i \in 1..NumRows(passIn) :
                Cardinality(RowsAt(parsed_dataframe, passIn.rows[i].index))
                + Cardinality(RowsAt(tmp_dataframe, passIn.rows[i].index)) = 1
    /\ pc \in {"line63", "line37", "line64"} =>
          SameRowsAs(parsed_dataframe, passIn)
    /\ (InMerge /\ call = "parse") => NumRows(passIn) = NumRows(input0)
    /\ ParseDone =>
          /\ NumRows(returned) = NumRows(input0)
          /\ SameRowsAs(returned, input0)

\* parse returned a dataset whose src_ip pass split the rows into two
\* non-empty groups and recombined them
C1_Witness ==
    /\ ParseDone
    /\ NumRows(returned) = NumRows(input0)
    /\ \E i, j \in 1..NumRows(extracted) :
          /\ IsEmptyStr(extracted.rows[i].cells["src_ip"])
          /\ ~IsEmptyStr(extracted.rows[j].cells["src_ip"])

----------------------------------------------------------------------------
\* C2: for every row and each pair (src_ip, src_ip2), (dest_ip, dest_ip2):
\* when the primary field is "" after extraction and the alternate is not,
\* the row's primary field in the dataset parse returns is the alternate's
\* pre-merge value; when both are "", the final primary field is "".
C2_Fallback ==
    ParseDone =>
       \A i \in 1..NumRows(extracted) : \A p \in {"src_ip", "dest_ip"} :
          LET r == extracted.rows[i]
          IN  /\ Cardinality(RowsAt(returned, r.index)) = 1
              /\ (IsEmptyStr(r.cells[p]) /\ ~IsEmptyStr(r.cells[Ip2(p)]))
                    => Cell(returned, r.index, p) = r.cells[Ip2(p)]
              /\ (IsEmptyStr(r.cells[p]) /\ IsEmptyStr(r.cells[Ip2(p)]))
                    => IsEmptyStr(Cell(returned, r.index, p))

\* a returned dataset with a row filled from src_ip2 and a row whose dest_ip
\* and dest_ip2 both were empty
C2_Witness ==
    /\ ParseDone
    /\ \E i \in 1..NumRows(extracted) :
          /\ IsEmptyStr(extracted.rows[i].cells["src_ip"])
          /\ ~IsEmptyStr(extracted.rows[i].cells["src_ip2"])
          /\ Cell(returned, extracted.rows[i].index, "src_ip")
                = extracted.rows[i].cells["src_ip2"]
    /\ \E i \in 1..NumRows(extracted) :
          /\ IsEmptyStr(extracted.rows[i].cells["dest_ip"])
          /\ IsEmptyStr(extracted.rows[i].cells["dest_ip2"])
          /\ IsEmptyStr(Cell(returned, extracted.rows[i].index, "dest_ip"))

----------------------------------------------------------------------------
\* C3: every value of every column of the dataset parse returns is a string,
\* never null; and from the fill of line 28 on, no capture column of the
\* working datasets of the merge holds a null (neither the overwrite nor the
\* recombination brings one back).
C3_NoNulls ==
    /\ ParseDone =>
          \A i \in 1..NumRows(returned) : \A c \in returned.columns :
              IsString(returned.rows[i].cells[c])
    /\ (InMerge /\ call = "parse") =>
          /\ \A i \in 1..NumRows(parsed_dataframe) :
                \A c \in parsed_dataframe.columns \cap Groups :
                    IsString(parsed_dataframe.rows[i].cells[c])
          /\ \A i \in 1..NumRows(tmp_dataframe) :
                \A c \in tmp_dataframe.columns \cap Groups :
                    IsString(tmp_dataframe.rows[i].cells[c])

\* parse returned a dataset for an input with a matching row whose optional
\* group took no part in the match (a null before the fill)
C3_Witness ==
    /\ ParseDone
    /\ \E i \in 1..NumRows(dataframe) :
          /\ Matches(dataframe.rows[i].cells[raw_column])
          /\ Extract(dataframe.rows[i].cells[raw_column])["user"] = Null
          /\ Cell(returned, dataframe.rows[i].index, "user") = <<>>

----------------------------------------------------------------------------
\* C4: with the text column present parse never raises; a row whose cleaned
\* text does not match the pattern is in the returned dataset, once, and
\* every capture field of it is "".
C4_NonMatchingRowKept ==
    (call = "parse" /\ raw_column \in input0.columns) =>
       /\ pc # "raised"
       /\ pc = "done" =>
             /\ NumRows(returned) = NumRows(input0)
             /\ \A i \in 1..NumRows(dataframe) :
                   ~Matches(dataframe.rows[i].cells[raw_column]) =>
                       /\ Cardinality(RowsAt(returned, dataframe.rows[i].index)) = 1
                       /\ {"src_ip", "dest_ip", "user"} \subseteq returned.columns
                       /\ \A c \in returned.columns :
                             IsEmptyStr(Cell(returned, dataframe.rows[i].index, c))

\* three rows of which exactly two do not match
C4_Witness ==
    /\ ParseDone
    /\ NumRows(returned) = 3
    /\ Cardinality({i \in 1..NumRows(dataframe) :
                       ~Matches(dataframe.rows[i].cells[raw_column])}) = 2

----------------------------------------------------------------------------
\* C5: when every row has a non-empty src_ip and dest_ip after extraction,
\* the returned dataset has the same rows in the same order with the same
\* src_ip and dest_ip; and the returned dataset never has one of the columns
\* src_ip2, dest_ip2, src_ip_len, dest_ip_len.
C5_FrameOfMerge ==
    ParseDone =>
       /\ returned.columns \cap HelperColumns = {}
       /\ (\A i \in 1..NumRows(extracted) :
              /\ ~IsEmptyStr(extracted.rows[i].cells["src_ip"])
              /\ ~IsEmptyStr(extracted.rows[i].cells["dest_ip"]))
          => /\ NumRows(returned) = NumRows(extracted)
             /\ \A i \in 1..NumRows(extracted) :
                   /\ returned.rows[i].index = extracted.rows[i].index
                   /\ returned.rows[i].cells["src_ip"]
                         = extracted.rows[i].cells["src_ip"]
                   /\ returned.rows[i].cells["dest_ip"]
                         = extracted.rows[i].cells["dest_ip"]

\* at least two rows, all with non-empty src_ip and dest_ip
C5_Witness ==
    /\ ParseDone
    /\ NumRows(returned) >= 2
    /\ \A i \in 1..NumRows(extracted) :
          /\ ~IsEmptyStr(extracted.rows[i].cells["src_ip"])
          /\ ~IsEmptyStr(extracted.rows[i].cells["dest_ip"])
    /\ returned.columns = {"src_ip", "dest_ip", "user"}

----------------------------------------------------------------------------
\* C6 as stated: a call of _process_ip_fields on an already-merged dataset
\* ends without error and returns a dataset with the same rows, columns and
\* values as the one passed in.
C6_MergeAgainIsNoOp ==
    (call = "merge" /\ pc \in {"done", "raised"}) =>
       /\ pc = "done"
       /\ error = "none"
       /\ merged = passIn

\* C6 amended: a call of _process_ip_fields on an already-merged dataset
\* never returns: it raises KeyError in the src_ip pass (at line 51 when a
\* row has an empty src_ip, else at line 63), returns no dataset, and has by
\* then added the column src_ip_len to the dataset it was passed.
C6_MergeAgainRaises ==
    call = "merge" =>
       /\ pc \in {"line42", "line44", "line48", "line63", "raised"}
       /\ ip = "src_ip"
       /\ merged = NoFrame
       /\ pc = "raised" =>
             /\ error = "KeyError"
             /\ returned.columns = passIn.columns \cup {"src_ip_len"}
       /\ pc = "line63" => \A i \in 1..NumRows(passIn) :
                              ~IsEmptyStr(passIn.rows[i].cells["src_ip"])

\* the second call has raised on a dataset with rows
C6_Witness ==
    /\ call = "merge"
    /\ pc = "raised"
    /\ NumRows(passIn) >= 2
    /\ "src_ip2" \notin passIn.columns

----------------------------------------------------------------------------
\* C7: when the column named by the caller is absent, parse raises KeyError
\* at its first statement: nothing is returned, no working dataset exists,
\* and the caller's dataset is as it was passed.
C7_MissingColumnFails ==
    raw_column \notin input0.columns =>
       /\ pc \in {"line25", "raised"}
       /\ pc = "raised" => error = "KeyError"
       /\ returned = NoFrame
       /\ parsed_dataframe = NoFrame
       /\ dataframe = input0

\* parse has raised for a dataset with rows and no such column
C7_Witness ==
    /\ raw_column \notin input0.columns
    /\ pc = "raised"
    /\ error = "KeyError"
    /\ NumRows(input0) >= 1

----------------------------------------------------------------------------
\* C8 as stated: the cleaned text is the text with every doubled backslash
\* removed and every other character (a single backslash too) kept.
C8_OnlyDoubledRemoved ==
    (raw_column \in input0.columns /\ pc # "line25") =>
       \A i \in 1..NumRows(input0) :
          dataframe.rows[i].cells[raw_column]
             = StrReplaceLiteral(input0.rows[i].cells[raw_column], <<>>)

\* C8 amended: the cleaning removes every backslash, doubled or not, from
\* each value of the text column and changes nothing else: the other
\* characters are kept in order, the rows, the index and every other column
\* of the caller's dataset are as passed, and the extraction of line 26 sees
\* the cleaned text.
C8_EveryBackslashRemoved ==
    (raw_column \in input0.columns /\ pc # "line25") =>
       /\ dataframe.columns = input0.columns
       /\ NumRows(dataframe) = NumRows(input0)
       /\ \A i \in 1..NumRows(input0) :
             /\ dataframe.rows[i].index = input0.rows[i].index
             /\ dataframe.rows[i].cells[raw_column]
                   = SelectSeq(input0.rows[i].cells[raw_column], NotBackslash)
             /\ \A c \in input0.columns \ {raw_column} :
                   dataframe.rows[i].cells[c] = input0.rows[i].cells[c]
       /\ pc = "line28" =>
             \A i \in 1..NumRows(input0) :
                parsed_dataframe.rows[i].cells
                   = Extract(SelectSeq(input0.rows[i].cells[raw_column],
                                       NotBackslash))

\* the extraction has run on a text that held a backslash outside any
\* doubled backslash
C8_Witness ==
    /\ pc = "line28"
    /\ \E i \in 1..NumRows(input0) :
          LET t == input0.rows[i].cells[raw_column]
          IN  /\ StrReplaceLiteral(t, <<>>) # dataframe.rows[i].cells[raw_column]
              /\ Matches(dataframe.rows[i].cells[raw_column])

----------------------------------------------------------------------------
\* C9: at the end of a pass, if no row of the pass's input had a zero-length
\* primary field, the dataset is the input with the same rows, order and
\* values and only the alternate (and length) column gone; if every row had
\* one, the dataset is every input row once, in order, with the primary
\* field equal to the row's alternate field.
C9_EdgeCases ==
    pc = "line37" =>
       LET n == NumRows(passIn)
           zero == {i \in 1..n : IsEmptyStr(passIn.rows[i].cells[ip])}
           kept == passIn.columns \ {Ip2(ip)}
       IN  /\ zero = {} =>
                 /\ parsed_dataframe.columns = kept
                 /\ NumRows(parsed_dataframe) = n
                 /\ \A i \in 1..n :
                       /\ parsed_dataframe.rows[i].index = passIn.rows[i].index
                       /\ \A c \in kept :
                             parsed_dataframe.rows[i].cells[c]
                                = passIn.rows[i].cells[c]
           /\ (zero = 1..n /\ n > 0) =>
                 /\ parsed_dataframe.columns = kept
                 /\ NumRows(parsed_dataframe) = n
                 /\ \A i \in 1..n :
                       /\ parsed_dataframe.rows[i].index = passIn.rows[i].index
                       /\ parsed_dataframe.rows[i].cells[ip]
                             = passIn.rows[i].cells[Ip2(ip)]
                       /\ \A c \in kept \ {ip} :
                             parsed_dataframe.rows[i].cells[c]
                                = passIn.rows[i].cells[c]

\* the end of a dest_ip pass in which every row had an empty dest_ip, after
\* a src_ip pass in which no row had an empty src_ip
C9_Witness ==
    /\ pc = "line37"
    /\ ip = "dest_ip"
    /\ NumRows(passIn) >= 2
    /\ \A i \in 1..NumRows(passIn) : IsEmptyStr(passIn.rows[i].cells["dest_ip"])
    /\ \E i \in 1..NumRows(passIn) : ~IsEmptyStr(passIn.rows[i].cells["dest_ip2"])
    /\ \A i \in 1..NumRows(extracted) :
          ~IsEmptyStr(extracted.rows[i].cells["src_ip"])

----------------------------------------------------------------------------
\* C10: at the end of a pass the rows are the input rows with a non-empty
\* primary field in their order followed by those with an empty one in their
\* order, each with all its remaining fields other than the primary as they
\* were (the rows with a non-empty primary keep that too); the index of the
\* dataset parse returns is a permutation of the caller's, and is the
\* caller's order when neither src_ip nor dest_ip has an empty value before
\* a non-empty one after extraction.
C10_StablePartition ==
    /\ pc = "line37" =>
          LET nz == SelectSeq(passIn.rows, LAMBDA r : ~IsEmptyStr(r.cells[ip]))
              z  == SelectSeq(passIn.rows, LAMBDA r : IsEmptyStr(r.cells[ip]))
              expect == nz \o z
          IN  /\ NumRows(parsed_dataframe) = Len(expect)
              /\ \A i \in 1..Len(expect) :
                    /\ parsed_dataframe.rows[i].index = expect[i].index
                    /\ \A c \in parsed_dataframe.columns \ {ip} :
                          parsed_dataframe.rows[i].cells[c] = expect[i].cells[c]
                    /\ i <= Len(nz) =>
                          parsed_dataframe.rows[i].cells[ip] = expect[i].cells[ip]
    /\ ParseDone =>
          /\ SameRowsAs(returned, input0)
          /\ (NoInversion(extracted, "src_ip") /\ NoInversion(extracted, "dest_ip"))
                => IndexOf(returned) = IndexOf(input0)

\* parse returned three rows in an order other than the caller's: the row
\* with the empty primary field moved behind both others
C10_Witness ==
    /\ ParseDone
    /\ IndexOf(input0) = <<0, 1, 2>>
    /\ IndexOf(returned) = <<1, 2, 0>>
    /\ ~IsEmptyStr(Cell(extracted, 1, "dest_ip"))
    /\ ~IsEmptyStr(Cell(extracted, 2, "dest_ip"))

====
